---- MODULE Spec2Model ----
(***************************************************************************)
(* Model of ElectrumLikeSync::electrum_like_setup (src/blockchain/utils.rs) *)
(* and of the helpers it calls: one sync pass of the wallet against an      *)
(* Electrum-like remote, step by step, over a key-value store.              *)
(***************************************************************************)
EXTENDS Integers, Sequences, FiniteSets, TLC

(* ------------------------------ bounds --------------------------------- *)
\* scripts derived (cached in the store) for the External chain
NumExternal == 3
\* scripts derived for the Internal chain
NumInternal == 1
\* transactions that exist on the remote, ids 1..NumTxs
NumTxs == 3
\* history entries the remote holds at one time, over all scripts
MaxPays == 2
\* largest explicit stop_gap argument a caller passes
MaxStopGap == 2

(* --------------------------- program constants ------------------------- *)
\* stop_gap.unwrap_or(20)
DefaultStopGap == 20

(* ------------------------------ data ----------------------------------- *)
Chains == {"External", "Internal"}

\* Option<T>: None is the empty sequence, Some(v) the one-element sequence
None == <<>>
Some(v) == <<v>>

\* `x as u32` for a 32-bit signed or a small unsigned x: a non-negative value
\* is kept; a negative one wraps to 2^32 + x, which is above every i32 and is
\* written as the record of its offset from 2^32
AsU32(x) == IF x >= 0 THEN x ELSE [two_pow_32_plus |-> x]

\* Txid::default(), the all-zero id of the null outpoint
NullTxid == 0
TxIds == 1..NumTxs

\* OutPoint
OutPoint(t, v) == [txid |-> t, vout |-> v]
\* OutPoint::null(): the previous output of a coinbase input
NullOutPoint == OutPoint(NullTxid, AsU32(-1))

\* the inputs of the transactions of the remote chain: transaction 1 is a
\* coinbase, transaction t > 1 spends outputs 0 and 1 of transaction t - 1
TxInput(t) ==
    IF t = 1 THEN << [previous_output |-> NullOutPoint] >>
    ELSE << [previous_output |-> OutPoint(t - 1, 0)],
            [previous_output |-> OutPoint(t - 1, 1)] >>

\* bitcoin::Transaction, with txid() the hash of its content
Transaction(t) == [txid |-> t, input |-> TxInput(t)]

\* the derived scripts of a chain, in derivation order
NumScripts(c) == IF c = "External" THEN NumExternal ELSE NumInternal
Script(c, i) == [chain |-> c, index |-> i]
Scripts == UNION {{Script(c, i) : i \in 0..(NumScripts(c) - 1)} : c \in Chains}

\* heights a history entry carries: -1, 0 (unconfirmed) or a block height
Heights == {-1, 0, 1}
\* ELSGetHistoryRes
ELSGetHistoryRes == [height : Heights, tx_hash : TxIds]

(* --------------------------- pure helpers ------------------------------ *)
Max(a, b) == IF a >= b THEN a ELSE b
Min(a, b) == IF a <= b THEN a ELSE b

Range(s) == {s[i] : i \in 1..Len(s)}

\* the orders in which a HashSet can be iterated
Orderings(S) ==
    {f \in [1..Cardinality(S) -> S] : \A i, j \in 1..Cardinality(S) : f[i] = f[j] => i = j}

\* HashMap::insert
MapInsert(m, k, v) == [x \in (DOMAIN m) \cup {k} |-> IF x = k THEN v ELSE m[x]]

\* ChunksIterator::next: the next at most `size` items
ChunkOf(iter, size) == SubSeq(iter, 1, Min(size, Len(iter)))
ChunkRest(iter, size) == SubSeq(iter, Min(size, Len(iter)) + 1, Len(iter))

\* Vec<Vec<_>>::into_iter().flatten().collect()
RECURSIVE Flatten(_)
Flatten(vv) == IF vv = <<>> THEN <<>> ELSE Head(vv) \o Flatten(Tail(vv))

\* a fold over a set of naturals
SetMax(S) == CHOOSE m \in S : \A x \in S : x <= m

NormalizeHeightNoClamp(h) ==
    IF h = 0 THEN None ELSE Some(AsU32(h))

\* el.height.max(0), then None for 0 and Some(height as u32) otherwise
NormalizeHeight(h) ==
    LET height == Max(h, 0)
    IN  IF height = 0 THEN None ELSE Some(AsU32(height))

\* find_max_index: the largest position, within the call result, of a
\* non-empty history
find_max_index(vec) ==
    LET nonEmpty == {i \in 0..(Len(vec) - 1) : vec[i + 1] # <<>>}
    IN  IF nonEmpty = {} THEN None ELSE Some(AsU32(SetMax(nonEmpty)))

\* a loop over `flattened` that keeps the height an id already has
RECURSIVE InsertHeightsKeepFirst(_, _)
InsertHeightsKeepFirst(m, els) ==
    IF els = <<>> THEN m
    ELSE InsertHeightsKeepFirst(IF Head(els).tx_hash \in DOMAIN m
                                THEN m
                                ELSE MapInsert(m, Head(els).tx_hash,
                                               NormalizeHeight(Head(els).height)),
                                Tail(els))

\* the loop over `flattened`: txid_height.insert for every entry, in order
RECURSIVE InsertHeights(_, _)
InsertHeights(m, els) ==
    IF els = <<>> THEN m
    ELSE InsertHeights(MapInsert(m, Head(els).tx_hash, NormalizeHeight(Head(els).height)),
                       Tail(els))

\* previous_txids: the id of the previous output of every input of every
\* downloaded transaction
PreviousTxids(txs) ==
    UNION {{tx.input[k].previous_output.txid : k \in 1..Len(tx.input)} : tx \in Range(txs)}

\* wallet_chains.shuffle(): the orders a vector can be shuffled into
Shuffles(v) == {[i \in 1..Len(v) |-> v[p[i]]] : p \in Orderings(1..Len(v))}

(* ------------------------------ state ---------------------------------- *)
VARIABLES
    \* the remote
    history,          \* script -> the history entries the remote returns for it
    \* the store
    rawTxs,           \* raw transactions
    txDetails,        \* ids with a TransactionDetails record
    utxos,            \* outpoints with a UTXO record
    lastIndex,        \* chain -> Option<u32>, the derivation index
    \* one pass of electrum_like_setup
    pc,               \* position in the pass
    stop_gap,
    wallet_chains,    \* chains still to scan
    script_type,      \* chain being scanned
    script_iter,      \* scripts of the chain not yet requested
    history_txs_id,
    txid_height,
    max_index,
    tx_details_in_db,
    txids_raw_in_db,
    hop,              \* the call of download_in_chunks in progress: 0 (none), 1, 2
    to_download,      \* ids download_in_chunks has still to request
    txs_downloaded,
    batch,            \* the operations of the open batch
    result,           \* what the pass returned
    \* history variables for the properties
    pre,              \* the store when the pass began
    histReqs,         \* chain -> history requests issued for its scripts in the pass
    observed,         \* the history entries processed by the pass, in order
    txReqs,           \* the transaction-fetch requests of the pass: <<hop, ids>>
    remoteFault,      \* a remote call of the pass returned an error
    storeFault,       \* a store write of the pass failed
    again,            \* the pass repeats, with the same argument and against the same
                      \* remote view, a pass that returned Ok and wrote all it meant to
    scanLog,          \* the chunks requested so far in the scan of the current chain,
                      \* each with the entries it returned
    new_timestamps,   \* what download_needed_headers returned
    headerReqs,       \* the heights whose block header the pass requested
    batches,          \* store batches begun and committed in the pass
    fromEmpty         \* the store was empty when the wallet was created, so all
                      \* it holds was written by passes

remoteVars == <<history>>
storeVars == <<rawTxs, txDetails, utxos, lastIndex>>
passVars == <<pc, stop_gap, wallet_chains, script_type, script_iter, history_txs_id,
              txid_height, max_index, tx_details_in_db, txids_raw_in_db, hop,
              to_download, txs_downloaded, batch, result>>
auxVars == <<scanLog, new_timestamps, headerReqs, batches, fromEmpty>>
ghostVars == <<pre, histReqs, observed, txReqs, remoteFault, storeFault, again, auxVars>>
vars == <<remoteVars, storeVars, passVars, ghostVars>>

Store == [raw |-> rawTxs, details |-> txDetails, utxos |-> utxos, index |-> lastIndex]

EmptyMap == [x \in {} |-> 0]

\* the timestamp of the header of the block at height h, as the remote's
\* header request gives it
HeaderTimestamp(h) == [block_time_at |-> h]

\* Result<(), Error>
Ok == <<"Ok">>
Err(e) == <<"Err", e>>

\* the `?` operator on a call made in the given part of the pass: the error
\* of the call is returned as it is
Propagate(phase, e) == e

\* the database's iter_script_pubkeys(Some(script_type)): the derived scripts
\* of the chain, in derivation order
iter_script_pubkeys(c) == [j \in 1..NumScripts(c) |-> Script(c, j - 1)]

\* the remote's answer to a batched history request: one history per script
els_batch_script_get_history(chunk) == [j \in 1..Len(chunk) |-> history[chunk[j]]]

\* the remote's answer to a batched transaction request: one transaction per
\* id; the call fails when an id is unknown to the remote
TransactionGetFails(chunk) == \E j \in 1..Len(chunk) : chunk[j] \notin TxIds
els_batch_transaction_get(chunk) == [j \in 1..Len(chunk) |-> Transaction(chunk[j])]

\* let chunk_size = stop_gap
chunk_size == stop_gap

(* ------------------------------ initial state -------------------------- *)
\* the store of a wallet that synced transactions 1..k before
StoreKnowing(k) ==
    [raw     |-> {Transaction(t) : t \in 1..k},
     details |-> 1..k,
     utxos   |-> IF k = 0 THEN {} ELSE {OutPoint(k, 0)},
     index   |-> [c \in Chains |-> IF c = "External" /\ k > 0 THEN Some(k) ELSE None]]

Init ==
    /\ history = [s \in Scripts |-> <<>>]
    /\ \E k \in 0..NumTxs :
        /\ rawTxs = StoreKnowing(k).raw
        /\ txDetails = StoreKnowing(k).details
        /\ utxos = StoreKnowing(k).utxos
        /\ lastIndex = StoreKnowing(k).index
    /\ pc = "idle"
    /\ stop_gap = 0
    /\ wallet_chains = <<>>
    /\ script_type = "External"
    /\ script_iter = <<>>
    /\ history_txs_id = {}
    /\ txid_height = EmptyMap
    /\ max_index = EmptyMap
    /\ tx_details_in_db = {}
    /\ txids_raw_in_db = {}
    /\ hop = 0
    /\ to_download = <<>>
    /\ txs_downloaded = <<>>
    /\ batch = <<>>
    /\ result = None
    /\ pre = None
    /\ histReqs = [c \in Chains |-> 0]
    /\ observed = <<>>
    /\ txReqs = <<>>
    /\ remoteFault = FALSE
    /\ storeFault = FALSE
    /\ again = FALSE
    /\ scanLog = <<>>
    /\ new_timestamps = EmptyMap
    /\ headerReqs = {}
    /\ batches = [begun |-> 0, committed |-> 0]
    /\ fromEmpty = (rawTxs = {})

(* ------------------------------ the remote ----------------------------- *)
TotalEntries == Len(Flatten([j \in 1..Len(iter_script_pubkeys("External")) |->
                                history[iter_script_pubkeys("External")[j]]]))
              + Len(Flatten([j \in 1..Len(iter_script_pubkeys("Internal")) |->
                                history[iter_script_pubkeys("Internal")[j]]]))

\* a transaction paying script s enters its history at height h
Pay(s, h, t) ==
    /\ pc = "idle"
    /\ TotalEntries < MaxPays
    /\ \A j \in 1..Len(history[s]) : history[s][j].tx_hash # t
    /\ history' = [history EXCEPT ![s] = Append(@, [height |-> h, tx_hash |-> t])]
    /\ UNCHANGED <<storeVars, passVars, ghostVars>>

\* a transaction disappears from every history (dropped from the mempool, or
\* evicted by a reorg)
Drop(t) ==
    /\ pc = "idle"
    /\ \E s \in Scripts : \E j \in 1..Len(history[s]) : history[s][j].tx_hash = t
    /\ history' = [s \in Scripts |-> SelectSeq(history[s], LAMBDA el : el.tx_hash # t)]
    /\ UNCHANGED <<storeVars, passVars, ghostVars>>

(* ------------------------------ one pass -------------------------------- *)
\* an early return through `?`: the pass ends with the error and its working
\* state is dropped
Fail(e) ==
    /\ pc' = "done"
    /\ result' = Err(e)
    /\ stop_gap' = stop_gap
    /\ wallet_chains' = <<>>
    /\ script_type' = "External"
    /\ script_iter' = <<>>
    /\ history_txs_id' = {}
    /\ txid_height' = EmptyMap
    /\ max_index' = EmptyMap
    /\ tx_details_in_db' = {}
    /\ txids_raw_in_db' = {}
    /\ hop' = 0
    /\ to_download' = <<>>
    /\ txs_downloaded' = <<>>
    /\ batch' = <<>>

\* lines 85-97: the entry of electrum_like_setup, up to the shuffle
Enter(gap, rerun) ==
    /\ stop_gap' = gap
    /\ history_txs_id' = {}
    /\ txid_height' = EmptyMap
    /\ max_index' = EmptyMap
    /\ wallet_chains' \in Shuffles(<<"External", "External">>)
    /\ pc' = "chains"
    /\ script_type' = "External"
    /\ script_iter' = <<>>
    /\ tx_details_in_db' = {}
    /\ txids_raw_in_db' = {}
    /\ hop' = 0
    /\ to_download' = <<>>
    /\ txs_downloaded' = <<>>
    /\ batch' = <<>>
    /\ result' = None
    /\ pre' = Store
    /\ histReqs' = [c \in Chains |-> 0]
    /\ observed' = <<>>
    /\ txReqs' = <<>>
    /\ remoteFault' = FALSE
    /\ storeFault' = FALSE
    /\ again' = rerun
    /\ scanLog' = <<>>
    /\ new_timestamps' = EmptyMap
    /\ headerReqs' = {}
    /\ batches' = [begun |-> 0, committed |-> 0]
    /\ UNCHANGED fromEmpty
    /\ UNCHANGED <<remoteVars, storeVars>>

\* the caller syncs: stop_gap.unwrap_or(20)
StartPass(sg) ==
    /\ pc = "idle"
    /\ Enter(IF sg = None THEN DefaultStopGap ELSE sg[1], FALSE)

\* the caller syncs again right after a pass that returned Ok, with the same
\* stop_gap
Rerun ==
    /\ pc = "done"
    /\ result = Ok
    /\ Enter(stop_gap, ~storeFault)

\* lines 99-100: the next chain of the outer loop and its scripts; past the
\* last chain the loop ends
BeginChain(ok) ==
    /\ pc = "chains"
    /\ IF wallet_chains = <<>>
       THEN /\ pc' = "snapshot"
            /\ UNCHANGED <<wallet_chains, script_type, script_iter, result>>
            /\ UNCHANGED <<stop_gap, history_txs_id, txid_height, max_index,
                           tx_details_in_db, txids_raw_in_db, hop, to_download,
                           txs_downloaded, batch, scanLog>>
       ELSE IF ok
       THEN /\ script_type' = Head(wallet_chains)
            /\ wallet_chains' = Tail(wallet_chains)
            /\ script_iter' = iter_script_pubkeys(Head(wallet_chains))
            /\ pc' = "chunks"
            /\ scanLog' = <<>>
            /\ UNCHANGED <<result, stop_gap, history_txs_id, txid_height, max_index,
                           tx_details_in_db, txids_raw_in_db, hop, to_download,
                           txs_downloaded, batch>>
       ELSE /\ Fail(Propagate("scan", "Database"))
            /\ UNCHANGED scanLog
    /\ UNCHANGED <<remoteVars, storeVars, pre, histReqs, observed, txReqs, remoteFault,
                   storeFault, again, new_timestamps, headerReqs, batches,
                   fromEmpty>>

\* an inner loop whose chunk iterator does not advance: after a chunk with a
\* history entry the same chunk is requested again
ScanChunkNoAdvance(ok) ==
    /\ pc = "chunks"
    /\ script_iter # <<>>
    /\ LET chunk == ChunkOf(script_iter, stop_gap)
           call_result == els_batch_script_get_history(chunk)
           max == find_max_index(call_result)
           flattened == Flatten(call_result)
       IN  /\ histReqs' = [histReqs EXCEPT ![script_type] = @ + 1]
           /\ remoteFault' = ~ok
           /\ IF ~ok
              THEN /\ Fail(Propagate("scan", "Electrum"))
                   /\ UNCHANGED <<observed, scanLog>>
              ELSE /\ scanLog' = Append(scanLog, [chunk |-> chunk, entries |-> flattened])
                   /\ max_index' = IF max # None
                                   THEN MapInsert(max_index, script_type, max[1])
                                   ELSE max_index
                   /\ IF flattened = <<>>
                      THEN \* break
                           /\ script_iter' = <<>>
                           /\ pc' = "chains"
                           /\ UNCHANGED <<history_txs_id, txid_height, observed>>
                      ELSE /\ txid_height' = InsertHeights(txid_height, flattened)
                           /\ history_txs_id' =
                                  history_txs_id \cup {el.tx_hash : el \in Range(flattened)}
                           /\ observed' = observed \o flattened
                           /\ script_iter' = script_iter
                           /\ pc' = "chunks"
                   /\ UNCHANGED <<result, stop_gap, wallet_chains, script_type,
                                  tx_details_in_db, txids_raw_in_db, hop, to_download,
                                  txs_downloaded, batch>>
    /\ UNCHANGED <<remoteVars, storeVars, pre, txReqs, storeFault, again, new_timestamps,
                   headerReqs, batches, fromEmpty>>

\* an inner loop without the break: after a chunk of empty histories the scan
\* goes on to the next chunk
ScanChunkNoBreak(ok) ==
    /\ pc = "chunks"
    /\ script_iter # <<>>
    /\ LET chunk == ChunkOf(script_iter, stop_gap)
           call_result == els_batch_script_get_history(chunk)
           max == find_max_index(call_result)
           flattened == Flatten(call_result)
       IN  /\ histReqs' = [histReqs EXCEPT ![script_type] = @ + 1]
           /\ remoteFault' = ~ok
           /\ IF ~ok
              THEN /\ Fail(Propagate("scan", "Electrum"))
                   /\ UNCHANGED <<observed, scanLog>>
              ELSE /\ scanLog' = Append(scanLog, [chunk |-> chunk, entries |-> flattened])
                   /\ max_index' = IF max # None
                                   THEN MapInsert(max_index, script_type, max[1])
                                   ELSE max_index
                   /\ IF flattened = <<>>
                      THEN /\ script_iter' = ChunkRest(script_iter, stop_gap)
                           /\ pc' = IF ChunkRest(script_iter, stop_gap) = <<>>
                                    THEN "chains" ELSE "chunks"
                           /\ UNCHANGED <<history_txs_id, txid_height, observed>>
                      ELSE /\ txid_height' = InsertHeights(txid_height, flattened)
                           /\ history_txs_id' =
                                  history_txs_id \cup {el.tx_hash : el \in Range(flattened)}
                           /\ observed' = observed \o flattened
                           /\ script_iter' = ChunkRest(script_iter, stop_gap)
                           \* the chunk iterator ends the loop when no script is left
                           /\ pc' = IF ChunkRest(script_iter, stop_gap) = <<>>
                                    THEN "chains" ELSE "chunks"
                   /\ UNCHANGED <<result, stop_gap, wallet_chains, script_type,
                                  tx_details_in_db, txids_raw_in_db, hop, to_download,
                                  txs_downloaded, batch>>
    /\ UNCHANGED <<remoteVars, storeVars, pre, txReqs, storeFault, again, new_timestamps,
                   headerReqs, batches, fromEmpty>>

\* lines 101-126: one iteration of the inner loop, one batched history request
ScanChunk(ok) ==
    /\ pc = "chunks"
    /\ script_iter # <<>>
    /\ LET chunk == ChunkOf(script_iter, stop_gap)
           call_result == els_batch_script_get_history(chunk)
           max == find_max_index(call_result)
           flattened == Flatten(call_result)
       IN  /\ histReqs' = [histReqs EXCEPT ![script_type] = @ + 1]
           /\ remoteFault' = ~ok
           /\ IF ~ok
              THEN /\ Fail(Propagate("scan", "Electrum"))
                   /\ UNCHANGED <<observed, scanLog>>
              ELSE /\ scanLog' = Append(scanLog, [chunk |-> chunk, entries |-> flattened])
                   /\ max_index' = IF max # None
                                   THEN MapInsert(max_index, script_type, max[1])
                                   ELSE max_index
                   /\ IF flattened = <<>>
                      THEN \* break
                           /\ script_iter' = <<>>
                           /\ pc' = "chains"
                           /\ UNCHANGED <<history_txs_id, txid_height, observed>>
                      ELSE /\ txid_height' = InsertHeights(txid_height, flattened)
                           /\ history_txs_id' =
                                  history_txs_id \cup {el.tx_hash : el \in Range(flattened)}
                           /\ observed' = observed \o flattened
                           /\ script_iter' = ChunkRest(script_iter, stop_gap)
                           \* the chunk iterator ends the loop when no script is left
                           /\ pc' = IF ChunkRest(script_iter, stop_gap) = <<>>
                                    THEN "chains" ELSE "chunks"
                   /\ UNCHANGED <<result, stop_gap, wallet_chains, script_type,
                                  tx_details_in_db, txids_raw_in_db, hop, to_download,
                                  txs_downloaded, batch>>
    /\ UNCHANGED <<remoteVars, storeVars, pre, txReqs, storeFault, again, new_timestamps,
                   headerReqs, batches, fromEmpty>>

\* lines 129-132: get db status
Snapshot(ok) ==
    /\ pc = "snapshot"
    /\ IF ok
       THEN /\ tx_details_in_db' = txDetails
            /\ txids_raw_in_db' = {tx.txid : tx \in rawTxs}
            /\ pc' = "download"
            /\ UNCHANGED <<result, stop_gap, wallet_chains, script_type, script_iter,
                           history_txs_id, txid_height, max_index, hop, to_download,
                           txs_downloaded, batch>>
       ELSE Fail(Propagate("snapshot", "Database"))
    /\ UNCHANGED <<remoteVars, storeVars, ghostVars>>

\* a download that also asks for the missing predecessors of the touched
\* transactions the store already holds
StartDownloadStoredPredecessors ==
    /\ pc = "download"
    /\ txs_downloaded' = <<>>
    /\ LET stored == history_txs_id \cap txids_raw_in_db
           previous == UNION {{TxInput(t)[k].previous_output.txid :
                                   k \in 1..Len(TxInput(t))} : t \in stored}
           txids_to_download ==
               (history_txs_id \cup (previous \ {NullTxid})) \ txids_raw_in_db
       IN  IF txids_to_download # {}
           THEN /\ to_download' \in Orderings(txids_to_download)
                /\ hop' = 1
                /\ pc' = "fetch"
           ELSE /\ pc' = "headers"
                /\ UNCHANGED <<to_download, hop>>
    /\ UNCHANGED <<remoteVars, storeVars, stop_gap, wallet_chains, script_type, script_iter,
                   history_txs_id, txid_height, max_index, tx_details_in_db,
                   txids_raw_in_db, batch, result, ghostVars>>

\* lines 166-170: download_needed_raw_txs up to its first download_in_chunks
StartDownload ==
    /\ pc = "download"
    /\ txs_downloaded' = <<>>
    /\ LET txids_to_download == history_txs_id \ txids_raw_in_db
       IN  IF txids_to_download # {}
           THEN /\ to_download' \in Orderings(txids_to_download)
                /\ hop' = 1
                /\ pc' = "fetch"
           ELSE /\ pc' = "headers"
                /\ UNCHANGED <<to_download, hop>>
    /\ UNCHANGED <<remoteVars, storeVars, stop_gap, wallet_chains, script_type, script_iter,
                   history_txs_id, txid_height, max_index, tx_details_in_db,
                   txids_raw_in_db, batch, result, ghostVars>>

\* download_in_chunks keeping only the result of its latest call
DownloadChunkKeepLast(ok) ==
    /\ pc = "fetch"
    /\ to_download # <<>>
    /\ LET chunk == ChunkOf(to_download, chunk_size)
       IN  /\ txReqs' = Append(txReqs, <<hop, chunk>>)
           /\ remoteFault' = ~(ok /\ ~TransactionGetFails(chunk))
           /\ IF ok /\ ~TransactionGetFails(chunk)
              THEN /\ txs_downloaded' = els_batch_transaction_get(chunk)
                   /\ to_download' = ChunkRest(to_download, chunk_size)
                   /\ UNCHANGED <<pc, result, stop_gap, wallet_chains, script_type,
                                  script_iter, history_txs_id, txid_height, max_index,
                                  tx_details_in_db, txids_raw_in_db, hop, batch>>
              ELSE Fail(Propagate("download", "Electrum"))
    /\ UNCHANGED <<remoteVars, storeVars, pre, histReqs, observed, storeFault, again,
                   auxVars>>

\* download_in_chunks storing every fetched transaction at once, outside the
\* batch
DownloadChunkEager(ok) ==
    /\ pc = "fetch"
    /\ to_download # <<>>
    /\ LET chunk == ChunkOf(to_download, chunk_size)
       IN  /\ txReqs' = Append(txReqs, <<hop, chunk>>)
           /\ remoteFault' = ~(ok /\ ~TransactionGetFails(chunk))
           /\ IF ok /\ ~TransactionGetFails(chunk)
              THEN /\ txs_downloaded' = txs_downloaded \o els_batch_transaction_get(chunk)
                   /\ rawTxs' = rawTxs \cup Range(els_batch_transaction_get(chunk))
                   /\ to_download' = ChunkRest(to_download, chunk_size)
                   /\ UNCHANGED <<pc, result, stop_gap, wallet_chains, script_type,
                                  script_iter, history_txs_id, txid_height, max_index,
                                  tx_details_in_db, txids_raw_in_db, hop, batch>>
              ELSE /\ Fail(Propagate("download", "Electrum"))
                   /\ UNCHANGED rawTxs
    /\ UNCHANGED <<remoteVars, txDetails, utxos, lastIndex, pre, histReqs, observed,
                   storeFault, again, auxVars>>

\* lines 205-209: one iteration of download_in_chunks, one batched
\* transaction request
DownloadChunk(ok) ==
    /\ pc = "fetch"
    /\ to_download # <<>>
    /\ LET chunk == ChunkOf(to_download, chunk_size)
       IN  /\ txReqs' = Append(txReqs, <<hop, chunk>>)
           /\ remoteFault' = ~(ok /\ ~TransactionGetFails(chunk))
           /\ IF ok /\ ~TransactionGetFails(chunk)
              THEN /\ txs_downloaded' = txs_downloaded \o els_batch_transaction_get(chunk)
                   /\ to_download' = ChunkRest(to_download, chunk_size)
                   /\ UNCHANGED <<pc, result, stop_gap, wallet_chains, script_type,
                                  script_iter, history_txs_id, txid_height, max_index,
                                  tx_details_in_db, txids_raw_in_db, hop, batch>>
              ELSE Fail(Propagate("download", "Electrum"))
    /\ UNCHANGED <<remoteVars, storeVars, pre, histReqs, observed, storeFault, again,
                   auxVars>>

\* lines 171-183: the first download_in_chunks returned; collect the
\* predecessors and begin the second
CollectPrevious ==
    /\ pc = "fetch"
    /\ hop = 1
    /\ to_download = <<>>
    /\ LET previous_txids == PreviousTxids(txs_downloaded)
           txids_downloaded == {tx.txid : tx \in Range(txs_downloaded)}
           already_present == txids_downloaded \cup txids_raw_in_db
           previous_txs_to_download == previous_txids \ already_present
       IN  to_download' \in Orderings(previous_txs_to_download)
    /\ hop' = 2
    /\ UNCHANGED <<remoteVars, storeVars, pc, stop_gap, wallet_chains, script_type,
                   script_iter, history_txs_id, txid_height, max_index, tx_details_in_db,
                   txids_raw_in_db, txs_downloaded, batch, result, ghostVars>>

\* a download that goes on to the predecessors of the transactions of the
\* second hop, and to theirs, until none is missing
EndDownloadRecursive ==
    /\ pc = "fetch"
    /\ hop = 2
    /\ to_download = <<>>
    /\ LET more == PreviousTxids(txs_downloaded)
                       \ ({tx.txid : tx \in Range(txs_downloaded)} \cup txids_raw_in_db)
       IN  IF more # {}
           THEN /\ to_download' \in Orderings(more)
                /\ UNCHANGED <<hop, pc>>
           ELSE /\ hop' = 0
                /\ pc' = "headers"
                /\ UNCHANGED to_download
    /\ UNCHANGED <<remoteVars, storeVars, stop_gap, wallet_chains, script_type, script_iter,
                   history_txs_id, txid_height, max_index, tx_details_in_db,
                   txids_raw_in_db, txs_downloaded, batch, result, ghostVars>>

\* lines 183-185: the second download_in_chunks returned, and
\* download_needed_raw_txs with it
EndDownload ==
    /\ pc = "fetch"
    /\ hop = 2
    /\ to_download = <<>>
    /\ hop' = 0
    /\ pc' = "headers"
    /\ UNCHANGED <<remoteVars, storeVars, stop_gap, wallet_chains, script_type, script_iter,
                   history_txs_id, txid_height, max_index, tx_details_in_db,
                   txids_raw_in_db, to_download, txs_downloaded, batch, result, ghostVars>>

\* what download_needed_headers returns: Ok(HashMap::new())
download_needed_headers(txid_height_, tx_details_in_db_, chunk_size_) == EmptyMap

\* lines 137-138, 189-197: download_needed_headers requests nothing and
\* returns an empty map
DownloadHeaders ==
    /\ pc = "headers"
    /\ new_timestamps' = download_needed_headers(txid_height, tx_details_in_db, chunk_size)
    /\ UNCHANGED headerReqs
    /\ pc' = "save"
    /\ UNCHANGED <<remoteVars, storeVars, stop_gap, wallet_chains, script_type, script_iter,
                   history_txs_id, txid_height, max_index, tx_details_in_db,
                   txids_raw_in_db, hop, to_download, txs_downloaded, batch, result,
                   pre, histReqs, observed, txReqs, remoteFault, storeFault, again,
                   scanLog, batches, fromEmpty>>

\* lines 140-145: begin_batch and one set_raw_tx per new transaction; a
\* set_raw_tx on a batch only records the operation
SaveRawTxs ==
    /\ pc = "save"
    /\ IF txs_downloaded # <<>>
       THEN /\ batch' = txs_downloaded
            /\ batches' = [batches EXCEPT !.begun = @ + 1]
            /\ pc' = "commit"
       ELSE /\ pc' = "reconcile"
            /\ UNCHANGED <<batch, batches>>
    /\ UNCHANGED <<remoteVars, storeVars, stop_gap, wallet_chains, script_type, script_iter,
                   history_txs_id, txid_height, max_index, tx_details_in_db,
                   txids_raw_in_db, hop, to_download, txs_downloaded, result,
                   pre, histReqs, observed, txReqs, remoteFault, storeFault, again,
                   scanLog, new_timestamps, headerReqs, fromEmpty>>

\* a save that writes the new raw transactions to the store one at a time,
\* each in a commit of its own
CommitBatchOneByOne(ok) ==
    /\ pc = "commit"
    /\ IF ok
       THEN /\ rawTxs' = rawTxs \cup {Head(batch)}
            /\ batches' = [batches EXCEPT !.committed = @ + 1]
            /\ UNCHANGED storeFault
       ELSE /\ storeFault' = TRUE
            /\ UNCHANGED <<rawTxs, batches>>
    /\ batch' = Tail(batch)
    /\ pc' = IF Tail(batch) = <<>> THEN "reconcile" ELSE "commit"
    /\ UNCHANGED <<remoteVars, txDetails, utxos, lastIndex, stop_gap, wallet_chains,
                   script_type, script_iter, history_txs_id, txid_height, max_index,
                   tx_details_in_db, txids_raw_in_db, hop, to_download, txs_downloaded,
                   result, pre, histReqs, observed, txReqs, remoteFault, again,
                   scanLog, new_timestamps, headerReqs, fromEmpty>>

\* line 146: commit_batch; the store applies the whole batch or, on a store
\* error, none of it; the Result is dropped
CommitBatch(ok) ==
    /\ pc = "commit"
    /\ IF ok
       THEN /\ rawTxs' = rawTxs \cup Range(batch)
            /\ batches' = [batches EXCEPT !.committed = @ + 1]
            /\ UNCHANGED storeFault
       ELSE /\ storeFault' = TRUE
            /\ UNCHANGED <<rawTxs, batches>>
    /\ batch' = <<>>
    /\ pc' = "reconcile"
    /\ UNCHANGED <<remoteVars, txDetails, utxos, lastIndex, stop_gap, wallet_chains,
                   script_type, script_iter, history_txs_id, txid_height, max_index,
                   tx_details_in_db, txids_raw_in_db, hop, to_download, txs_downloaded,
                   result, pre, histReqs, observed, txReqs, remoteFault, again,
                   scanLog, new_timestamps, headerReqs, fromEmpty>>

\* a tail that drops the stored raw transactions whose id is not in the
\* touched set
FinishPruningRawTxs ==
    /\ pc = "reconcile"
    /\ result' = Ok
    /\ pc' = "done"
    /\ rawTxs' = {tx \in rawTxs : tx.txid \in history_txs_id}
    /\ UNCHANGED <<remoteVars, txDetails, utxos, lastIndex, stop_gap, wallet_chains,
                   script_type, script_iter, history_txs_id, txid_height, max_index,
                   tx_details_in_db, txids_raw_in_db, hop, to_download, txs_downloaded,
                   batch, ghostVars>>

\* a tail that persists max_index without comparing it to the stored index
FinishWritingIndex ==
    /\ pc = "reconcile"
    /\ result' = Ok
    /\ pc' = "done"
    /\ lastIndex' = [c \in Chains |-> IF c \in DOMAIN max_index
                                      THEN Some(max_index[c]) ELSE lastIndex[c]]
    /\ UNCHANGED <<remoteVars, rawTxs, txDetails, utxos, stop_gap, wallet_chains,
                   script_type, script_iter, history_txs_id, txid_height, max_index,
                   tx_details_in_db, txids_raw_in_db, hop, to_download, txs_downloaded,
                   batch, ghostVars>>

\* lines 149-156: the loop over tx_details_in_db has an empty body; no
\* summary, UTXO or derivation index is written; Ok(())
Finish ==
    /\ pc = "reconcile"
    /\ result' = Ok
    /\ pc' = "done"
    /\ UNCHANGED <<remoteVars, storeVars, stop_gap, wallet_chains, script_type, script_iter,
                   history_txs_id, txid_height, max_index, tx_details_in_db,
                   txids_raw_in_db, hop, to_download, txs_downloaded, batch, ghostVars>>

\* the caller has the result; the working state of the pass is dropped
Return ==
    /\ pc = "done"
    /\ pc' = "idle"
    /\ stop_gap' = 0
    /\ wallet_chains' = <<>>
    /\ script_type' = "External"
    /\ script_iter' = <<>>
    /\ history_txs_id' = {}
    /\ txid_height' = EmptyMap
    /\ max_index' = EmptyMap
    /\ tx_details_in_db' = {}
    /\ txids_raw_in_db' = {}
    /\ hop' = 0
    /\ to_download' = <<>>
    /\ txs_downloaded' = <<>>
    /\ batch' = <<>>
    /\ result' = None
    /\ pre' = None
    /\ histReqs' = [c \in Chains |-> 0]
    /\ observed' = <<>>
    /\ txReqs' = <<>>
    /\ remoteFault' = FALSE
    /\ storeFault' = FALSE
    /\ again' = FALSE
    /\ scanLog' = <<>>
    /\ new_timestamps' = EmptyMap
    /\ headerReqs' = {}
    /\ batches' = [begun |-> 0, committed |-> 0]
    /\ UNCHANGED fromEmpty
    /\ UNCHANGED <<remoteVars, storeVars>>

StopGapArgs == {None} \cup {Some(g) : g \in 1..MaxStopGap}

Next ==
    \/ \E s \in Scripts, h \in Heights, t \in TxIds : Pay(s, h, t)
    \/ \E t \in TxIds : Drop(t)
    \/ \E sg \in StopGapArgs : StartPass(sg)
    \/ Rerun
    \/ \E ok \in BOOLEAN : BeginChain(ok)
    \/ \E ok \in BOOLEAN : ScanChunk(ok)
    \/ \E ok \in BOOLEAN : Snapshot(ok)
    \/ StartDownload
    \/ \E ok \in BOOLEAN : DownloadChunk(ok)
    \/ CollectPrevious
    \/ EndDownload
    \/ DownloadHeaders
    \/ SaveRawTxs
    \/ \E ok \in BOOLEAN : CommitBatch(ok)
    \/ Finish
    \/ Return

Spec == Init /\ [][Next]_vars

\* the steps of a pass once it is entered
PassStep ==
    \/ \E ok \in BOOLEAN : BeginChain(ok)
    \/ \E ok \in BOOLEAN : ScanChunk(ok)
    \/ \E ok \in BOOLEAN : Snapshot(ok)
    \/ StartDownload
    \/ \E ok \in BOOLEAN : DownloadChunk(ok)
    \/ CollectPrevious
    \/ EndDownload
    \/ DownloadHeaders
    \/ SaveRawTxs
    \/ \E ok \in BOOLEAN : CommitBatch(ok)
    \/ Finish

\* electrum_like_setup runs to its return without waiting for anything but
\* the answers of the remote and of the store, and every request is answered,
\* with a result or an error: a pass that can take a step takes one
FairSpec == Spec /\ WF_vars(PassStep)

(* ------------------------------ properties ----------------------------- *)
Returned == pc = "done"
ReturnedOk == pc = "done" /\ result = Ok

\* Option<u32> compared as a high-water-mark: None is below every index
OptLeq(a, b) == a = None \/ (b # None /\ a[1] <= b[1])

\* the ids of the history of a script
HistoryIds(s) == {history[s][j].tx_hash : j \in 1..Len(history[s])}

\* the chain-relative indices of the scripts of chain c with a history
ActiveIndices(c) == {i \in 0..(NumScripts(c) - 1) : history[Script(c, i)] # <<>>}

\* the height the specification gives a history entry
SpecHeight(h) == IF h = 0 \/ h = -1 THEN None ELSE Some(h)

\* the position in `observed` of the latest entry of id t
LastObserved(t) == SetMax({j \in 1..Len(observed) : observed[j].tx_hash = t})

\* C1: a pass that repeats a successful pass against the unchanged remote view
\* leaves the store as that pass left it (raw transactions, summaries, UTXOs
\* and derivation indexes) and adds nothing: it downloads no transaction and
\* opens no batch.
C1_Idempotence ==
    again => /\ Store = pre
             /\ txs_downloaded = <<>>
             /\ txReqs = <<>>
             /\ batch = <<>>

\* a repeated pass returned Ok over a store that was empty before the first
\* pass and now holds the raw transactions the first pass downloaded
C1_Witness ==
    /\ ReturnedOk
    /\ again
    /\ history_txs_id # {}
    /\ txDetails = {}
    /\ history_txs_id \subseteq {tx.txid : tx \in rawTxs}

\* C2: from the beginning of a pass on, through every step and after the
\* return, successful or failed, the stored derivation index of each chain is
\* at least what it was before the pass.
C2_IndexMonotonic ==
    pre # None => \A c \in Chains : OptLeq(pre.index[c], lastIndex[c])

\* a pass returned Ok having found, for a chain, a maximum index below the
\* stored derivation index
C2_Witness ==
    /\ ReturnedOk
    /\ \E c \in DOMAIN max_index : lastIndex[c] # None /\ max_index[c] < lastIndex[c][1]

\* C3: after a successful pass the store holds a summary for every id of the
\* touched set and for no other id.
C3_Completeness ==
    ReturnedOk => \A t \in TxIds : (t \in history_txs_id <=> t \in txDetails)

\* C4: after a successful pass no UTXO record exists for an outpoint that is
\* the previous output of an input of a transaction downloaded in the pass.
C4_SpentUtxosDeleted ==
    ReturnedOk =>
        \A tx \in Range(txs_downloaded) : \A k \in 1..Len(tx.input) :
            tx.input[k].previous_output \notin utxos

\* C5: a chain whose scripts 0..k-1 have a history and whose scripts
\* k..k+G-1 have none gets exactly ceil(k/G)+1 history requests in a pass; an
\* entirely unused wallet gets one request per chain and ends with an empty
\* touched set and an empty height map.
C5_GapLimitRequests ==
    ReturnedOk =>
        /\ \A c \in Chains : \A k \in 0..NumScripts(c) :
              ( /\ k + stop_gap <= NumScripts(c)
                /\ \A i \in 0..(k - 1) : i \in ActiveIndices(c)
                /\ \A i \in k..(k + stop_gap - 1) : i \notin ActiveIndices(c) )
              => histReqs[c] = ((k + stop_gap - 1) \div stop_gap) + 1
        /\ (\A s \in Scripts : history[s] = <<>>)
              => /\ \A c \in Chains : histReqs[c] = 1
                 /\ history_txs_id = {}
                 /\ txid_height = EmptyMap

\* C6: in every pass both chains are walked, so once the scan is over every
\* history entry of the Internal script of index 0 is in the touched set and
\* in the height map.
C6_BothChainsScanned ==
    (pc \in {"snapshot", "download", "fetch", "headers", "save", "commit", "reconcile"}
        \/ ReturnedOk)
    => /\ histReqs["Internal"] >= 1
       /\ \A t \in HistoryIds(Script("Internal", 0)) :
              t \in history_txs_id /\ t \in DOMAIN txid_height

\* C7: the height map holds exactly the ids of the entries accumulated, and it
\* records each id with the height of the entry accumulated for it (the latest
\* one, for an id seen more than once): None when that height is 0 or -1,
\* Some(h) when it is a positive h. (A pass that returned an error has
\* dropped its height map.)
C7_HeightNormalization ==
    (result = None \/ result = Ok) =>
        /\ DOMAIN txid_height = {observed[j].tx_hash : j \in 1..Len(observed)}
        /\ \A t \in DOMAIN txid_height :
               txid_height[t] = SpecHeight(observed[LastObserved(t)].height)

\* the scan accumulated an entry of height -1 and an entry of positive height
C7_Witness ==
    /\ ReturnedOk
    /\ \E i, j \in 1..Len(observed) :
           /\ observed[i].height = -1
           /\ observed[j].height > 0
           /\ txid_height[observed[i].tx_hash] = None
           /\ txid_height[observed[j].tx_hash] = Some(observed[j].height)

\* C8: after a successful pass every chain in which a scanned script has a
\* history has a stored derivation index taken from the highest active index
\* found; two confirmed payments to External 0 and 1, stop-gap 20 and no other
\* activity leave the stored External index at 2.
C8_IndexPersisted ==
    ReturnedOk =>
        /\ \A c \in DOMAIN max_index :
               lastIndex[c] # None /\ lastIndex[c][1] >= max_index[c]
        /\ ( /\ stop_gap = DefaultStopGap
             /\ \A s \in Scripts :
                    IF s.chain = "External" /\ s.index \in {0, 1}
                    THEN Len(history[s]) = 1 /\ history[s][1].height > 0
                    ELSE history[s] = <<>> )
           => lastIndex["External"] = Some(2)

\* C9: a summary stored before a pass whose id is in no remote history during
\* the pass is gone after the pass, with every UTXO of an output of that
\* transaction.
C9_StaleRemoved ==
    ReturnedOk =>
        \A t \in pre.details :
            (\A s \in Scripts : t \notin HistoryIds(s))
            => /\ t \notin txDetails
               /\ \A o \in utxos : o.txid # t

\* C10: when a batched remote call of a pass returns an error, a history
\* request or a transaction request of either hop, the pass returns that error
\* and the store is as it was before the pass.
C10_AbortWithoutWrites ==
    remoteFault => /\ pc = "done"
                   /\ result = Err("Electrum")
                   /\ Store = pre

\* a transaction request failed after an earlier one of the pass succeeded
C10_Witness ==
    /\ remoteFault
    /\ Returned
    /\ Len(txReqs) >= 2

\* C11: a pass returns Ok only if every store write of the pass was committed;
\* when the commit of the raw-transaction batch fails, the pass returns the
\* store error and the store is as it was before the pass.
C11_NoSuccessOnPartialCommit ==
    (storeFault /\ Returned) => /\ result = Err("Database")
                                /\ Store = pre

\* the ids of the predecessors a transaction's non-coinbase inputs refer to
PredecessorIds(t) ==
    {TxInput(t)[k].previous_output.txid : k \in 1..Len(TxInput(t))} \ {NullTxid}

\* C12: after successful passes that started from an empty store, with the
\* remote history growing between passes, the store holds the raw transaction
\* of every id of the latest touched set and the raw transaction of the
\* predecessor of each of its non-coinbase inputs.
C12_DepthTwoAcrossPasses ==
    (fromEmpty /\ ReturnedOk /\ ~storeFault) =>
        \A t \in history_txs_id :
            /\ Transaction(t) \in rawTxs
            /\ \A p \in PredecessorIds(t) : Transaction(p) \in rawTxs

\* C13: a coinbase input, whose previous output is the null outpoint,
\* contributes no predecessor id, so the null transaction id is neither queued
\* for download nor passed to the batched transaction request.
C13_CoinbaseExclusion ==
    /\ NullTxid \notin Range(to_download)
    /\ \A i \in 1..Len(txReqs) : NullTxid \notin Range(txReqs[i][2])

\* the touched ids with a confirmed height and no stored summary
NeededIds == {t \in DOMAIN txid_height : txid_height[t] # None /\ t \notin tx_details_in_db}

\* C14: download_needed_headers requests the block headers of exactly the
\* confirmed heights of the touched ids that have no stored summary, and
\* returns a map giving each such id the timestamp of the header at its height.
C14_TimestampResolution ==
    (pc \in {"save", "commit", "reconcile"} \/ ReturnedOk) =>
        /\ headerReqs = {txid_height[t][1] : t \in NeededIds}
        /\ DOMAIN new_timestamps = NeededIds
        /\ \A t \in NeededIds : new_timestamps[t] = HeaderTimestamp(txid_height[t][1])

\* C15: the batch holding the raw transactions downloaded in the pass is
\* committed before the height/timestamp resolution begins, so when
\* download_needed_headers is entered the store holds every one of them.
C15_StrictStepOrder ==
    pc = "headers" => /\ Range(txs_downloaded) \subseteq rawTxs
                      /\ (txs_downloaded # <<>> => batches.committed = 1)

\* the scan of the current chain has requested at least one chunk and the
\* chain has scripts after the last script of the last chunk requested
ScriptsRemain ==
    /\ scanLog # <<>>
    /\ LET chunk == scanLog[Len(scanLog)].chunk
       IN  chunk[Len(chunk)].index < NumScripts(script_type) - 1

\* C16: in the scan of one chain the next chunk is requested if and only if
\* the last chunk returned a history entry and scripts of the chain remain;
\* after a chunk of empty histories the scan issues no further request, and
\* that chunk leaves the touched set and the height map as they were.
C16_GapLimitStop ==
    /\ [](/\ \A i \in 1..(Len(scanLog) - 1) : scanLog[i].entries # <<>>
          /\ pc = "chunks" =>
                /\ script_iter # <<>>
                /\ scanLog # <<>> => scanLog[Len(scanLog)].entries # <<>>
          /\ (pc = "chains" /\ scanLog # <<>>
                /\ scanLog[Len(scanLog)].entries # <<>>) => ~ScriptsRemain)
    /\ [][(/\ Len(scanLog') = Len(scanLog) + 1
           /\ scanLog'[Len(scanLog')].entries = <<>>)
          => /\ UNCHANGED <<history_txs_id, txid_height>>
             /\ pc' = "chains"]_vars

\* the scan of a chain stopped at its second chunk, which returned only empty
\* histories, with scripts of the chain left unrequested
C16_Witness ==
    /\ pc = "chains"
    /\ Len(scanLog) = 2
    /\ scanLog[2].entries = <<>>
    /\ ScriptsRemain

\* the chain-relative indices of the scripts requested in the scan of the
\* current chain that returned a non-empty history
ScannedActive ==
    UNION {{scanLog[i].chunk[j].index :
                j \in {k \in 1..Len(scanLog[i].chunk) : history[scanLog[i].chunk[k]] # <<>>}} :
           i \in 1..Len(scanLog)}

\* C17: at the end of the scan of a chain max_index holds, for that chain, the
\* chain-relative derivation index of the highest-indexed scanned script that
\* returned a non-empty history.
C17_ChainRelativeMaxIndex ==
    (pc = "chains" /\ scanLog # <<>> /\ ScannedActive # {}) =>
        /\ script_type \in DOMAIN max_index
        /\ max_index[script_type] = SetMax(ScannedActive)

\* the ids passed to the batched transaction request in hop h of the pass
Requested(h) ==
    UNION {Range(txReqs[i][2]) : i \in {k \in 1..Len(txReqs) : txReqs[k][1] = h}}

\* no id occurs twice in the transaction requests of the pass
NoIdRequestedTwice ==
    \A i, j \in 1..Len(txReqs) :
        \A a \in 1..Len(txReqs[i][2]), b \in 1..Len(txReqs[j][2]) :
            txReqs[i][2][a] = txReqs[j][2][b] => (i = j /\ a = b)

\* C18: the ids passed to the transaction request in the first hop are exactly
\* the touched ids absent from the raw-transaction snapshot, and those of the
\* second hop exactly the predecessor ids of the first-hop transactions that
\* are neither in the snapshot nor fetched in the first hop; no stored id is
\* requested and no id is requested twice.
C18_MinimalDownload ==
    (pc \in {"fetch", "headers", "save", "commit", "reconcile"} \/ ReturnedOk) =>
        LET first == history_txs_id \ txids_raw_in_db
            second == UNION {PredecessorIds(t) : t \in first} \ (txids_raw_in_db \cup first)
        IN  /\ Requested(1) \cup (IF hop = 1 THEN Range(to_download) ELSE {}) = first
            /\ hop # 1 => Requested(2) \cup Range(to_download) = second
            /\ (Requested(1) \cup Requested(2)) \cap txids_raw_in_db = {}
            /\ NoIdRequestedTwice

\* the ids the inputs of transaction t refer to
InputTxids(t) == {TxInput(t)[k].previous_output.txid : k \in 1..Len(TxInput(t))}

\* C19: every id requested from the remote in a pass, or queued to be, is an
\* id of the touched set or the id an input of a touched transaction fetched
\* in the pass refers to; the inputs of the transactions of the second hop
\* cause no request.
C19_DepthBound ==
    (pc \in {"fetch", "headers", "save", "commit", "reconcile"} \/ ReturnedOk) =>
        /\ \A i \in 1..Len(txReqs) : txReqs[i][1] \in {1, 2}
        /\ \A id \in Requested(1) \cup Requested(2) \cup Range(to_download) :
              \/ id \in history_txs_id
              \/ \E t \in history_txs_id :
                    /\ Transaction(t) \in Range(txs_downloaded)
                    /\ id \in InputTxids(t)

\* a pass fetched transaction 2 as the predecessor of the touched
\* transaction 3 and returned without requesting transaction 1, the
\* predecessor of transaction 2, which the store does not hold
C19_Witness ==
    /\ ReturnedOk
    /\ history_txs_id = {3}
    /\ Requested(2) = {2}
    /\ Transaction(1) \notin rawTxs
    /\ 1 \notin Requested(1) \cup Requested(2)

\* C20: the raw transactions downloaded in a pass, first hop and predecessor
\* hop together, are written through one begin_batch/commit_batch pair: in
\* every state of a pass the store holds the raw transactions it held before
\* the pass and either none or all of those downloaded, and it holds the
\* downloaded ones only once the one batch of the pass is committed.
C20_SingleAtomicBatch ==
    pre # None =>
        /\ batches.begun <= 1
        /\ batches.committed <= batches.begun
        /\ \/ batches.committed = 0 /\ rawTxs = pre.raw
           \/ batches.committed = 1 /\ rawTxs = pre.raw \cup Range(txs_downloaded)
        /\ (ReturnedOk /\ txs_downloaded # <<>>) =>
              /\ batches.begun = 1
              /\ batches.committed = 1 \/ storeFault

\* a pass committed one batch holding transactions of both hops
C20_Witness ==
    /\ ReturnedOk
    /\ batches = [begun |-> 1, committed |-> 1]
    /\ Requested(1) # {}
    /\ Requested(2) # {}
    /\ Range(txs_downloaded) \subseteq rawTxs
    /\ Range(txs_downloaded) \cap pre.raw = {}

\* the ids of the entries the scan accumulated
ObservedIds == {observed[j].tx_hash : j \in 1..Len(observed)}

\* C21: when the scan of a pass is over, an id observed in several history
\* entries is in the height map with the normalized height of the entry
\* observed last in scan order, whatever the heights of the earlier ones, and
\* it is in the touched set once.
C21_LastWriteWins ==
    (pc \in {"snapshot", "download", "fetch", "headers", "save", "commit", "reconcile"}
        \/ ReturnedOk) =>
        /\ \A i, j \in 1..Len(observed) :
              (i < j /\ observed[i].tx_hash = observed[j].tx_hash
                     /\ \A k \in (j + 1)..Len(observed) :
                            observed[k].tx_hash # observed[j].tx_hash)
              => txid_height[observed[j].tx_hash] = SpecHeight(observed[j].height)
        /\ history_txs_id = ObservedIds
        /\ Cardinality(history_txs_id) = Cardinality(ObservedIds)

\* a pass observed an id first unconfirmed and last at a positive height, or
\* the other way round, and recorded the last
C21_Witness ==
    /\ ReturnedOk
    /\ \E i, j \in 1..Len(observed) :
           /\ i < j
           /\ observed[i].tx_hash = observed[j].tx_hash
           /\ SpecHeight(observed[i].height) # SpecHeight(observed[j].height)
           /\ j = LastObserved(observed[j].tx_hash)
           /\ txid_height[observed[j].tx_hash] = SpecHeight(observed[j].height)

\* C22: an error returned by a pass identifies the phase that produced it, so
\* the error of a pass whose history request failed differs from the error a
\* pass returns when a transaction request fails with the same underlying
\* error (and the other way round).
C22_ErrorPhaseIdentified ==
    (Returned /\ remoteFault) =>
        IF txReqs = <<>>
        THEN /\ result = Err(Propagate("scan", "Electrum"))
             /\ result # Err(Propagate("download", "Electrum"))
        ELSE /\ result = Err(Propagate("download", "Electrum"))
             /\ result # Err(Propagate("scan", "Electrum"))

C24_RawStoreOnlyGrows ==
    /\ [][rawTxs \subseteq rawTxs']_vars
    /\ [](pre # None => pre.raw \subseteq rawTxs)

\* a pass stored a new raw transaction and returned while the store held,
\* from before the pass, a raw transaction whose id is in no remote history
C24_Witness ==
    /\ ReturnedOk
    /\ batches.committed = 1
    /\ \E tx \in pre.raw :
           /\ tx \in rawTxs
           /\ \A s \in Scripts : tx.txid \notin HistoryIds(s)

\* a pass is entered and has not returned
InPass == pc \notin {"idle", "done"}

\* C25: with finitely many derived scripts per chain, a stop-gap of at least 1
\* and a remote that answers every request, every pass returns, and it issues
\* no more history requests than two scans of the scripts of the chain take
\* and no more transaction requests than there are ids to ask for.
C25_PassTermination ==
    /\ [](/\ stop_gap >= 1 \/ pc = "idle"
          /\ Len(scanLog) <= NumScripts(script_type)
          /\ \A c \in Chains : histReqs[c] <= 2 * NumScripts(c)
          /\ Len(txReqs) <= NumTxs + 1)
    /\ InPass ~> Returned

\* a pass returned Ok after several history requests and transaction requests
\* of both hops
C25_Witness ==
    /\ ReturnedOk
    /\ histReqs["External"] >= 4
    /\ Requested(1) # {}
    /\ Requested(2) # {}

====
